---------------------------- MODULE Spec2Model ----------------------------
(***************************************************************************)
(* The tree-layout engine of gedcom-to-markdown (src/src/canvas_generator  *)
(* .py): the breadth-first structure builder, the position solver, the     *)
(* diagram emitter and the forest assembler, over a relationship index     *)
(* read through the accessors of src/src/individual.py.                    *)
(*                                                                         *)
(* Person identifiers are the naturals 1..MaxPersons; their order is the   *)
(* string order of the GEDCOM pointers.  None (0) is Python's None.        *)
(* x coordinates are in pixels.  y coordinates are in units of 1/Scale     *)
(* pixel, because the layout halves sums of y values with "/ 2".           *)
(***************************************************************************)
EXTENDS Integers, Sequences, FiniteSets, TLC

\* ------------------------------------------------------------------------
\* Layout constants (class attributes of CanvasGenerator)
\* ------------------------------------------------------------------------
NODE_WIDTH == 250
NODE_BASE_HEIGHT == 60
GENERATION_SPACING == 680
SIBLING_SPACING == 305
COUPLE_SPACING == 190
IMAGE_HEIGHT == 350
TREE_SPACING == 400

\* ------------------------------------------------------------------------
\* Bounds of the model
\* ------------------------------------------------------------------------
MaxPersons == 9
MaxFamilies == 4
MaxCalls == 2
\* the most individuals of an index that is read in every variant (SEX
\* values, line orders, FAMS lines, images, isolates); the indexes read as
\* recorded hold up to two more
MaxIndexed == 4

\* y values are kept as multiples of 1/Scale pixel.  The only divisions of y
\* values are the two "/ 2" of _layout_descendants_left (lines 281 and 303):
\* the y of a child has at most one binary digit more than the y values of
\* the couple it is centred on, every other step adds whole pixels, and a
\* call whose halves reach a position places a child that was not processed
\* before, so no y has more than MaxPersons binary digits and both divisions
\* are exact in these units.
Scale == 2 ^ MaxPersons
IMG == Scale * IMAGE_HEIGHT
SIB == Scale * SIBLING_SPACING
CPL == Scale * COUPLE_SPACING

None == 0
\* An identifier that no index holds (the "absent root").
AbsentId == MaxPersons + 1

VARIABLES
    people,     \* identifiers of the individuals given to __init__ (individual_map keys)
    sex,        \* sex[p]: the SEX value of p ("M", "F", or "U" when there is none)
    images,     \* the individuals whose get_images() is not empty
    fams,       \* the FAM records, in file order: [husb, wife, chil, first], first
                \* being the tag ("HUSB" or "WIFE") of the earlier of the two lines
    fams_lines, \* fams_lines[p]: the FAMS lines of the INDI record of p, in line
                \* order, each as the number of the FAM record it points to
    nodes,      \* self.nodes
    edges,      \* self.edges
    calls,      \* number of generate_canvas calls made on this generator
    last,       \* what the last generate_canvas call computed (for observation)
    bfs         \* a _build_tree_structure call run step by step: its locals b, and
                \* whether it is running

vars == <<people, sex, images, fams, fams_lines, nodes, edges, calls, last, bfs>>

\* ------------------------------------------------------------------------
\* Sequence helpers
\* ------------------------------------------------------------------------
Range(s) == {s[i] : i \in 1 .. Len(s)}

InSeq(x, s) == \E i \in 1 .. Len(s) : s[i] = x

Max(a, b) == IF a >= b THEN a ELSE b
Min(a, b) == IF a <= b THEN a ELSE b

SetMax(S) == CHOOSE m \in S : \A k \in S : k <= m

\* Sequencing: the value v of one statement, handed to the statements after it
Bind(v, Rest(_)) == Rest(v)

\* The elements of set S as a sequence, in the order in which sequence o
\* lists them
RECURSIVE SetInOrder(_, _)
SetInOrder(S, o) ==
    IF o = <<>> THEN <<>>
    ELSE IF Head(o) \in S THEN <<Head(o)>> \o SetInOrder(S, Tail(o))
         ELSE SetInOrder(S, Tail(o))

\* ------------------------------------------------------------------------
\* The relationship index: accessors of Individual
\* ------------------------------------------------------------------------
\* Individual.get_gender
get_gender(p) == sex[p]

\* gedcom get_family_members(family, "PARENTS"): the HUSB and WIFE lines of
\* the record, in line order
FamilyParents(f) ==
    LET h == IF f.husb # None THEN <<f.husb>> ELSE <<>>
        w == IF f.wife # None THEN <<f.wife>> ELSE <<>>
    IN  IF f.first = "WIFE" THEN w \o h ELSE h \o w

\* Individual.get_families: one entry per FAMS line of p (gedcom get_families
\* follows the FAMS lines of the INDI record), whoever the record names as
\* HUSB and WIFE; the partner is the first parent of the record other than p
RECURSIVE get_families_from(_, _)
get_families_from(p, i) ==
    IF i > Len(fams_lines[p]) THEN <<>>
    ELSE LET f == fams[fams_lines[p][i]]
             others == SelectSeq(FamilyParents(f), LAMBDA q : q # p)
         IN  <<[partner |-> IF others # <<>> THEN others[1] ELSE None,
                children |-> f.chil]>> \o get_families_from(p, i + 1)

get_families(p) == get_families_from(p, 1)

\* The father/mother assignment loop of get_families_as_child over the
\* parents of one family: by SEX, a parent without SEX fills the first free slot.
RECURSIVE AssignParents(_, _, _)
AssignParents(ps, i, fm) ==
    IF i > Len(ps) THEN fm
    ELSE LET q == ps[i]
             g == sex[q]
             nxt == IF g = "M" THEN [fm EXCEPT !.father = q]
                    ELSE IF g = "F" THEN [fm EXCEPT !.mother = q]
                    ELSE IF fm.father = None THEN [fm EXCEPT !.father = q]
                    ELSE IF fm.mother = None THEN [fm EXCEPT !.mother = q]
                    ELSE fm
         IN  AssignParents(ps, i + 1, nxt)

\* Individual.get_families_as_child: one entry per family listing p as a child
RECURSIVE get_families_as_child_from(_, _)
get_families_as_child_from(p, i) ==
    IF i > Len(fams) THEN <<>>
    ELSE IF InSeq(p, fams[i].chil)
         THEN <<AssignParents(FamilyParents(fams[i]), 1, [father |-> None, mother |-> None])>>
              \o get_families_as_child_from(p, i + 1)
         ELSE get_families_as_child_from(p, i + 1)

get_families_as_child(p) == get_families_as_child_from(p, 1)

\* ------------------------------------------------------------------------
\* _build_tree_structure: breadth-first traversal from a root
\* ------------------------------------------------------------------------
\* A structure is [keys, node]: keys is the insertion order of the dict,
\* node[p] = [generation, spouses, children, parents, via] for p in keys.
\* A queue entry is <<person_id, generation, from, relation>>; the last two are
\* history (who enqueued the entry, and as what: "parent", "spouse", "child"),
\* copied to via when the entry creates the TreeNode.
EmptyStructure == [keys |-> <<>>, node |-> <<>>]

Keys(T) == DOMAIN T.node

\* the parents loop with the parents enqueued at the person's own generation
RECURSIVE ExpandAsChildSameGeneration(_, _, _, _, _, _)
ExpandAsChildSameGeneration(fs, i, acc, visited, generation, person_id) ==
    IF i > Len(fs) THEN acc
    ELSE LET f == fs[i]
             a1 == IF f.father # None
                   THEN [parents |-> Append(acc.parents, f.father),
                         queue |-> IF f.father \notin visited
                                   THEN Append(acc.queue,
                                               <<f.father, generation, person_id, "parent">>)
                                   ELSE acc.queue]
                   ELSE acc
             a2 == IF f.mother # None
                   THEN [parents |-> Append(a1.parents, f.mother),
                         queue |-> IF f.mother \notin visited
                                   THEN Append(a1.queue,
                                               <<f.mother, generation, person_id, "parent">>)
                                   ELSE a1.queue]
                   ELSE a1
         IN  ExpandAsChildSameGeneration(fs, i + 1, a2, visited, generation, person_id)

\* parents loop (lines 125-137): acc = [parents, queue]
RECURSIVE ExpandAsChild(_, _, _, _, _, _)
ExpandAsChild(fs, i, acc, visited, generation, person_id) ==
    IF i > Len(fs) THEN acc
    ELSE LET f == fs[i]
             a1 == IF f.father # None
                   THEN [parents |-> Append(acc.parents, f.father),
                         queue |-> IF f.father \notin visited
                                   THEN Append(acc.queue,
                                               <<f.father, generation - 1, person_id, "parent">>)
                                   ELSE acc.queue]
                   ELSE acc
             a2 == IF f.mother # None
                   THEN [parents |-> Append(a1.parents, f.mother),
                         queue |-> IF f.mother \notin visited
                                   THEN Append(a1.queue,
                                               <<f.mother, generation - 1, person_id, "parent">>)
                                   ELSE a1.queue]
                   ELSE a1
         IN  ExpandAsChild(fs, i + 1, a2, visited, generation, person_id)

\* AddChildren with the children enqueued at the parent's own generation
RECURSIVE AddChildrenSameGeneration(_, _, _, _, _, _)
AddChildrenSameGeneration(ch, j, acc, visited, generation, person_id) ==
    IF j > Len(ch) THEN acc
    ELSE LET c == ch[j]
             a1 == IF c # None /\ ~InSeq(c, acc.children)
                   THEN [acc EXCEPT !.children = Append(@, c),
                                    !.queue = IF c \notin visited
                                              THEN Append(@, <<c, generation, person_id, "child">>)
                                              ELSE @]
                   ELSE acc
         IN  AddChildrenSameGeneration(ch, j + 1, a1, visited, generation, person_id)

\* AddChildren that records the children and never enqueues them
RECURSIVE AddChildrenNotEnqueued(_, _, _, _, _, _)
AddChildrenNotEnqueued(ch, j, acc, visited, generation, person_id) ==
    IF j > Len(ch) THEN acc
    ELSE LET c == ch[j]
             a1 == IF c # None /\ ~InSeq(c, acc.children)
                   THEN [acc EXCEPT !.children = Append(@, c)]
                   ELSE acc
         IN  AddChildrenNotEnqueued(ch, j + 1, a1, visited, generation, person_id)

\* children loop of one family (lines 152-158): acc = [spouses, children, queue]
RECURSIVE AddChildren(_, _, _, _, _, _)
AddChildren(ch, j, acc, visited, generation, person_id) ==
    IF j > Len(ch) THEN acc
    ELSE LET c == ch[j]
             a1 == IF c # None /\ ~InSeq(c, acc.children)
                   THEN [acc EXCEPT !.children = Append(@, c),
                                    !.queue = IF c \notin visited
                                              THEN Append(@, <<c, generation + 1, person_id, "child">>)
                                              ELSE @]
                   ELSE acc
         IN  AddChildren(ch, j + 1, a1, visited, generation, person_id)

\* families loop (lines 141-158)
RECURSIVE ExpandFamilies(_, _, _, _, _, _)
ExpandFamilies(fs, i, acc, visited, generation, person_id) ==
    IF i > Len(fs) THEN acc
    ELSE LET f == fs[i]
             a1 == IF f.partner # None /\ ~InSeq(f.partner, acc.spouses)
                   THEN [acc EXCEPT !.spouses = Append(@, f.partner),
                                    !.queue = IF f.partner \notin visited
                                              THEN Append(@, <<f.partner, generation, person_id, "spouse">>)
                                              ELSE @]
                   ELSE acc
             a2 == AddChildren(f.children, 1, a1, visited, generation, person_id)
         IN  ExpandFamilies(fs, i + 1, a2, visited, generation, person_id)

\* The test of line 108 without its second half: an identifier that the index
\* lacks is expanded like any other
SkippedVisitedOnly(person_id, visited) == person_id \in visited

\* The test of line 108 without its first half: a visited person is expanded again
SkippedAbsentOnly(person_id, visited) == person_id \notin people

\* The test that drops a queue entry (line 108)
Skipped(person_id, visited) == person_id \in visited \/ person_id \notin people

\* One iteration of the while loop (lines 105-158) on b = [queue, visited, T, expanded].
\* expanded lists the persons given a TreeNode, in order, once per expansion.
BuildStep(b) ==
    LET person_id == Head(b.queue)[1]
        generation == Head(b.queue)[2]
        rest == Tail(b.queue)
    IN  IF Skipped(person_id, b.visited)
        THEN [b EXCEPT !.queue = rest]
        ELSE LET visited == b.visited \cup {person_id}
                 a1 == ExpandAsChild(get_families_as_child(person_id), 1,
                                     [parents |-> <<>>, queue |-> rest], visited, generation,
                                     person_id)
                 a2 == ExpandFamilies(get_families(person_id), 1,
                                      [spouses |-> <<>>, children |-> <<>>, queue |-> a1.queue],
                                      visited, generation, person_id)
                 nd == [generation |-> generation, spouses |-> a2.spouses,
                        children |-> a2.children, parents |-> a1.parents,
                        via |-> <<Head(b.queue)[3], Head(b.queue)[4]>>]
             IN  [queue |-> a2.queue,
                  visited |-> visited,
                  T |-> [keys |-> Append(b.T.keys, person_id),
                         node |-> [q \in Keys(b.T) \cup {person_id} |->
                                      IF q = person_id THEN nd ELSE b.T.node[q]]],
                  expanded |-> b.expanded \o <<person_id>>]

RECURSIVE BuildLoop(_)
BuildLoop(b) == IF b.queue = <<>> THEN b ELSE BuildLoop(BuildStep(b))

BuildStart(root_id) ==
    [queue |-> <<<<root_id, 0, None, "root">>>>, visited |-> {}, T |-> EmptyStructure,
     expanded |-> <<>>]

build_tree_structure(root_id) == BuildLoop(BuildStart(root_id)).T

\* ------------------------------------------------------------------------
\* Position solver
\* ------------------------------------------------------------------------
\* The solver's state st:
\*   pos        positions (a function on the positioned identifiers, <<x, y>>)
\*   processed  the processed set
\*   miny       the min_y_at_x map in use, keyed by <<x, direction>>
\*   log        every assignment to positions, in order, with the procedure that
\*              made it, the top-level ancestor invocation it belongs to (scope)
\*              and the min_y_at_x map that invocation uses (map)
\*   starts     the top-level _layout_ancestors_right invocations, in order: the
\*              person, the scope, the number of the min_y_at_x map handed to
\*              it, whether the caller passed no map (fresh), and the number
\*              of entries in the map when the invocation starts (size)
\*   checks     the collision checks of the one-parent branch, in order: the
\*              child and its position, the parent and the position it got, and
\*              the min_y_at_x entry found for the parent's column (had, claimed)
\*   active     the _layout_ancestors_right invocations on the call stack, each as
\*              <<person, direction, processed set on entry>>
\*   raised     TRUE once the recursion has exceeded the interpreter's recursion
\*              limit (RecursionError), which ends the _calculate_positions call
EmptyMap == <<>>

InitSolver ==
    [pos |-> EmptyMap, processed |-> {}, miny |-> EmptyMap, log |-> <<>>,
     scope |-> 0, map |-> 0, nscopes |-> 0, nmaps |-> 0,
     starts |-> <<>>, checks |-> <<>>, active |-> {}, raised |-> FALSE]

\* positions[p] = (x, y); processed.add(p)
Place(st, p, x, y, by) ==
    [st EXCEPT !.pos = (p :> <<x, y>>) @@ @,
               !.processed = @ \cup {p},
               !.log = Append(@, [p |-> p, x |-> x, y |-> y, by |-> by,
                                  scope |-> st.scope, map |-> st.map])]

SetMinY(st, key, y) == [st EXCEPT !.miny = (key :> y) @@ @]

\* The record of one collision check of the one-parent branch (lines 541-553)
Checked(st, child_id, parent_id, key, y, before) ==
    [st EXCEPT !.checks = Append(@,
        [child |-> child_id, child_x |-> before.pos[child_id][1],
         child_y |-> before.pos[child_id][2], parent |-> parent_id,
         x |-> key[1], y |-> y, direction |-> key[2],
         had |-> key \in DOMAIN before.miny,
         claimed |-> IF key \in DOMAIN before.miny THEN before.miny[key] ELSE 0])]

\* 'down' whatever the gender
DirectionDown(p) == "down"

\* 'up' if gender == 'M' else 'down'
Direction(p) == IF get_gender(p) = "M" THEN "up" ELSE "down"

\* y moved by d in the direction's sense
Step(y, d, direction) == IF direction = "up" THEN y - d ELSE y + d

\* _calculate_family_height that leaves the spouse out
calculate_family_height_own(person_id, T) == IMG

\* _calculate_family_height, as called with a fresh visited set
calculate_family_height(person_id, T) ==
    IF person_id \notin Keys(T) THEN IMG
    ELSE IF T.node[person_id].spouses # <<>> THEN IMG + CPL + IMG ELSE IMG

\* _get_siblings
\* the inner loop without the "not in siblings" test
RECURSIVE SiblingsOfChildrenRepeated(_, _, _, _)
SiblingsOfChildrenRepeated(ch, j, person_id, siblings) ==
    IF j > Len(ch) THEN siblings
    ELSE SiblingsOfChildrenRepeated(ch, j + 1, person_id,
            IF ch[j] # person_id THEN Append(siblings, ch[j]) ELSE siblings)

RECURSIVE SiblingsOfChildren(_, _, _, _)
SiblingsOfChildren(ch, j, person_id, siblings) ==
    IF j > Len(ch) THEN siblings
    ELSE SiblingsOfChildren(ch, j + 1, person_id,
            IF ch[j] # person_id /\ ~InSeq(ch[j], siblings)
            THEN Append(siblings, ch[j]) ELSE siblings)

RECURSIVE SiblingsOfParents(_, _, _, _, _)
SiblingsOfParents(ps, i, person_id, T, siblings) ==
    IF i > Len(ps) THEN siblings
    ELSE SiblingsOfParents(ps, i + 1, person_id, T,
            IF ps[i] \in Keys(T)
            THEN SiblingsOfChildren(T.node[ps[i]].children, 1, person_id, siblings)
            ELSE siblings)

get_siblings(person_id, T) ==
    IF person_id \notin Keys(T) THEN <<>>
    ELSE SiblingsOfParents(T.node[person_id].parents, 1, person_id, T, <<>>)

\* total_children_height loop (lines 289-295)
RECURSIVE ChildrenHeight(_, _, _)
ChildrenHeight(children, i, T) ==
    IF i > Len(children) THEN 0
    ELSE (IF children[i] \in Keys(T) THEN calculate_family_height(children[i], T) ELSE 0)
         + ChildrenHeight(children, i + 1, T)

RECURSIVE layout_descendants_left(_, _, _)
RECURSIVE DescendantsLoop(_, _, _, _, _, _)
RECURSIVE DescendantsLoopSpousePlacedAgain(_, _, _, _, _, _)
RECURSIVE layout_ancestors_right(_, _, _, _)
RECURSIVE ancestors_right_body(_, _, _, _)
RECURSIVE position_spouse_siblings(_, _, _, _, _, _)
RECURSIVE ParentSiblingsLoop(_, _, _, _, _, _, _, _)
RECURSIVE PartnersLoop(_, _, _, _, _, _, _, _)
RECURSIVE InLawSiblingsLoop(_, _, _, _, _, _, _)
RECURSIVE Call(_)

\* The calls that the solver's procedures make on each other go through Call,
\* which runs the procedure named in the call on the arguments of the call.
call_layout_descendants_left(root_id, T, st) ==
    Call([proc |-> "_layout_descendants_left", id |-> root_id, T |-> T, st |-> st])

call_layout_ancestors_right(root_id, T, st, direction) ==
    Call([proc |-> "_layout_ancestors_right", id |-> root_id, T |-> T, st |-> st,
          direction |-> direction])

call_position_spouse_siblings(spouse_id, spouse_x, spouse_y, T, st, direction) ==
    Call([proc |-> "_position_spouse_siblings", id |-> spouse_id, x |-> spouse_x,
          y |-> spouse_y, T |-> T, st |-> st, direction |-> direction])

\* The record of a top-level _layout_ancestors_right invocation that runs on st
Started(st, root_id, fresh) ==
    [st EXCEPT !.starts = Append(@, [person |-> root_id, scope |-> st.scope, map |-> st.map,
                                     fresh |-> fresh,
                                     size |-> Cardinality(DOMAIN st.miny)])]

\* _layout_ancestors_right called without min_y_at_x, but run on the caller's map
layout_ancestors_on_callers_map(root_id, T, st, direction) ==
    LET r == call_layout_ancestors_right(root_id, T,
                Started([st EXCEPT !.scope = st.nscopes + 1, !.nscopes = @ + 1],
                        root_id, TRUE),
                direction)
    IN  [r EXCEPT !.scope = st.scope]

\* _layout_ancestors_right called without min_y_at_x: a fresh map, dropped on return
layout_ancestors_fresh(root_id, T, st, direction) ==
    LET r == call_layout_ancestors_right(root_id, T,
                Started([st EXCEPT !.miny = EmptyMap, !.scope = st.nscopes + 1,
                                   !.nscopes = @ + 1, !.map = st.nmaps + 1, !.nmaps = @ + 1],
                        root_id, TRUE),
                direction)
    IN  [r EXCEPT !.miny = st.miny, !.scope = st.scope, !.map = st.map]

\* _layout_ancestors_right called from _calculate_positions with shared_min_y_at_x
\* (the map st.miny, numbered 0)
layout_ancestors_shared(root_id, T, st, direction) ==
    LET r == call_layout_ancestors_right(root_id, T,
                Started([st EXCEPT !.scope = st.nscopes + 1, !.nscopes = @ + 1],
                        root_id, FALSE),
                direction)
    IN  [r EXCEPT !.scope = st.scope]

\* _layout_descendants_left
layout_descendants_left(root_id, T, st) ==
    IF root_id \notin Keys(T) \/ root_id \notin DOMAIN st.pos THEN st
    ELSE LET children == T.node[root_id].children
             spouses == T.node[root_id].spouses
             root_x == st.pos[root_id][1]
             root_y == st.pos[root_id][2]
             centred == spouses # <<>> /\ spouses[1] \in DOMAIN st.pos
             sum == IF centred THEN root_y + st.pos[spouses[1]][2] ELSE 2 * root_y
             parent_center_y == sum \div 2
             total == ChildrenHeight(children, 1, T)
                      + (IF Len(children) > 1 THEN (Len(children) - 1) * SIB ELSE 0)
             start_y == parent_center_y - (total \div 2)
         IN  IF children = <<>> THEN st
             ELSE DescendantsLoop(children, 1, T, st, root_x - GENERATION_SPACING, start_y)

\* the placing loop of _layout_descendants_left placing a child's first spouse
\* even when the spouse is processed already
DescendantsLoopSpousePlacedAgain(children, i, T, st, child_x, current_y) ==
    IF i > Len(children) THEN st
    ELSE LET child_id == children[i]
         IN  IF child_id \in st.processed \/ child_id \notin Keys(T)
             THEN DescendantsLoopSpousePlacedAgain(children, i + 1, T, st, child_x, current_y)
             ELSE LET s1 == Place(st, child_id, child_x, current_y, "descendants")
                      child_spouses == T.node[child_id].spouses
                      spouse_id == IF child_spouses # <<>> THEN child_spouses[1] ELSE None
                      spouse_y == current_y + IMG + CPL
                      s2 == IF spouse_id # None /\ spouse_id \in Keys(T)
                            THEN LET a == Place(s1, spouse_id, child_x, spouse_y, "descendants")
                                     b == call_position_spouse_siblings(
                                              spouse_id, child_x, spouse_y, T, a,
                                              Direction(spouse_id))
                                 IN  layout_ancestors_fresh(spouse_id, T, b, Direction(spouse_id))
                            ELSE s1
                      s3 == call_layout_descendants_left(child_id, T, s2)
                 IN  DescendantsLoopSpousePlacedAgain(children, i + 1, T, s3, child_x,
                                     current_y + calculate_family_height(child_id, T) + SIB)

\* the placing loop of _layout_descendants_left (lines 306-339)
DescendantsLoop(children, i, T, st, child_x, current_y) ==
    IF i > Len(children) THEN st
    ELSE LET child_id == children[i]
         IN  IF child_id \in st.processed \/ child_id \notin Keys(T)
             THEN DescendantsLoop(children, i + 1, T, st, child_x, current_y)
             ELSE LET s1 == Place(st, child_id, child_x, current_y, "descendants")
                      child_spouses == T.node[child_id].spouses
                      spouse_id == IF child_spouses # <<>> THEN child_spouses[1] ELSE None
                      spouse_y == current_y + IMG + CPL
                      s2 == IF spouse_id # None /\ spouse_id \in Keys(T)
                               /\ spouse_id \notin s1.processed
                            THEN LET a == Place(s1, spouse_id, child_x, spouse_y, "descendants")
                                     b == call_position_spouse_siblings(
                                              spouse_id, child_x, spouse_y, T, a,
                                              Direction(spouse_id))
                                 IN  layout_ancestors_fresh(spouse_id, T, b, Direction(spouse_id))
                            ELSE s1
                      s3 == call_layout_descendants_left(child_id, T, s2)
                 IN  DescendantsLoop(children, i + 1, T, s3, child_x,
                                     current_y + calculate_family_height(child_id, T) + SIB)

\* The sibling loops of _layout_ancestors_right (father's: lines 446-483,
\* mother's: lines 487-522, which skips the ids in `exclude`).
\* Returns [st, y]: the solver state and current_sibling_y.
ParentSiblingsLoop(sibs, i, exclude, T, st, parent_x, current_sibling_y, direction) ==
    IF i > Len(sibs) THEN [st |-> st, y |-> current_sibling_y]
    ELSE LET sibling_id == sibs[i]
         IN  IF InSeq(sibling_id, exclude) \/ sibling_id \notin Keys(T)
                \/ sibling_id \in st.processed
             THEN ParentSiblingsLoop(sibs, i + 1, exclude, T, st, parent_x,
                                     current_sibling_y, direction)
             ELSE LET s1 == Place(st, sibling_id, parent_x, current_sibling_y, "parent_sibling")
                      sibling_spouses == T.node[sibling_id].spouses
                      spouse_id == IF sibling_spouses # <<>> THEN sibling_spouses[1] ELSE None
                      hasSpouse == spouse_id # None /\ spouse_id \in Keys(T)
                                   /\ spouse_id \notin s1.processed
                      spouse_y == Step(current_sibling_y, IMG + CPL, direction)
                      s2 == IF hasSpouse
                            THEN call_position_spouse_siblings(spouse_id, parent_x, spouse_y, T,
                                    Place(s1, spouse_id, parent_x, spouse_y, "parent_sibling_spouse"),
                                    direction)
                            ELSE s1
                      y2 == IF hasSpouse
                            THEN IF direction = "up"
                                 THEN Min(current_sibling_y, spouse_y) - SIB - IMG
                                 ELSE Max(current_sibling_y, spouse_y) + IMG + SIB
                            ELSE Step(current_sibling_y, IMG + SIB, direction)
                      s3 == call_layout_descendants_left(sibling_id, T, s2)
                  IN ParentSiblingsLoop(sibs, i + 1, exclude, T, s3, parent_x, y2, direction)

\* An invocation of _layout_ancestors_right.  Which calls an invocation makes
\* depends on the person, the direction and the processed set only, and the
\* processed set only grows: an invocation that finds the same triple already
\* on the call stack recurses without end, until the interpreter raises
\* RecursionError.  Nothing catches it, so every later statement is skipped.
layout_ancestors_right(root_id, T, st, direction) ==
    IF st.raised THEN st
    ELSE IF <<root_id, direction, st.processed>> \in st.active
    THEN [st EXCEPT !.raised = TRUE]
    ELSE Bind(ancestors_right_body(root_id, T,
                  [st EXCEPT !.active = @ \cup {<<root_id, direction, st.processed>>}],
                  direction), LAMBDA r :
         [r EXCEPT !.active = st.active])

\* the body of _layout_ancestors_right, on the map st.miny
ancestors_right_body(root_id, T, st, direction) ==
    IF root_id \notin Keys(T) \/ root_id \notin DOMAIN st.pos THEN st
    ELSE LET parents == T.node[root_id].parents
             person_x == st.pos[root_id][1]
             person_y == st.pos[root_id][2]
             parent_x == person_x + GENERATION_SPACING
             key == <<parent_x, direction>>
         IN  IF Len(parents) = 2
             THEN LET father_id == parents[1]
                      mother_id == parents[2]
                      parent_y == IF key \in DOMAIN st.miny THEN st.miny[key] ELSE person_y
                      s1 == IF father_id \in Keys(T) /\ father_id \notin st.processed
                            THEN Place(st, father_id, parent_x, parent_y, "father")
                            ELSE st
                      placeMother == mother_id \in Keys(T) /\ mother_id \notin s1.processed
                      m0 == Step(parent_y, IMG + CPL, direction)
                      m1 == IF key \in DOMAIN s1.miny
                            THEN IF direction = "up"
                                 THEN IF m0 > s1.miny[key] THEN s1.miny[key] - IMG - CPL ELSE m0
                                 ELSE IF m0 < s1.miny[key] THEN s1.miny[key] + IMG + CPL ELSE m0
                            ELSE m0
                      mother_y == IF placeMother THEN m1 ELSE parent_y
                      s2 == IF placeMother
                            THEN SetMinY(Place(s1, mother_id, parent_x, mother_y, "mother"),
                                         key, Step(mother_y, IMG + SIB, direction))
                            ELSE s1
                      y0 == IF direction = "up"
                            THEN Min(parent_y, mother_y) - SIB - IMG
                            ELSE Max(parent_y, mother_y) + IMG + SIB
                      father_siblings == get_siblings(father_id, T)
                  IN  Bind(ParentSiblingsLoop(father_siblings, 1, <<>>, T, s2, parent_x, y0,
                                              direction), LAMBDA r1 :
                      Bind(ParentSiblingsLoop(get_siblings(mother_id, T), 1, father_siblings, T,
                                              r1.st, parent_x, r1.y, direction), LAMBDA r2 :
                      Bind(SetMinY(r2.st, key, r2.y), LAMBDA s3 :
                      Bind(IF father_id \in Keys(T)
                           THEN layout_ancestors_right(father_id, T, s3, direction) ELSE s3,
                           LAMBDA s4 :
                      IF mother_id \in Keys(T)
                      THEN layout_ancestors_right(mother_id, T, s4, direction) ELSE s4))))
             ELSE IF Len(parents) = 1
             THEN LET parent_id == parents[1]
                      y1 == IF key \in DOMAIN st.miny
                            THEN IF direction = "up"
                                 THEN IF person_y > st.miny[key]
                                      THEN st.miny[key] - IMG - SIB ELSE person_y
                                 ELSE IF person_y < st.miny[key]
                                      THEN st.miny[key] + IMG + SIB ELSE person_y
                            ELSE person_y
                  IN  IF parent_id \in Keys(T) /\ parent_id \notin st.processed
                      THEN layout_ancestors_right(parent_id, T,
                              SetMinY(Checked(Place(st, parent_id, parent_x, y1, "single_parent"),
                                              root_id, parent_id, key, y1, st),
                                      key, Step(y1, IMG + SIB, direction)),
                              direction)
                      ELSE st
             ELSE st

\* The loops over a partner's siblings (lines 677-704) and over the spouse's own
\* siblings (lines 709-743) of _position_spouse_siblings; they differ in the log tag.
\* Returns [st, y]: the solver state and current_y.
InLawSiblingsLoop(sibs, i, T, st, spouse_x, current_y, direction) ==
    IF i > Len(sibs) THEN [st |-> st, y |-> current_y]
    ELSE LET sib_id == sibs[i]
         IN  IF sib_id \notin Keys(T) \/ sib_id \in st.processed
             THEN InLawSiblingsLoop(sibs, i + 1, T, st, spouse_x, current_y, direction)
             ELSE LET s1 == Place(st, sib_id, spouse_x, current_y, "inlaw_sibling")
                      sib_spouses == T.node[sib_id].spouses
                      hasSpouse == sib_spouses # <<>> /\ sib_spouses[1] \in Keys(T)
                                   /\ sib_spouses[1] \notin s1.processed
                      sib_spouse_y == Step(current_y, IMG + CPL, direction)
                      s2 == IF hasSpouse
                            THEN Place(s1, sib_spouses[1], spouse_x, sib_spouse_y,
                                       "inlaw_sibling_spouse")
                            ELSE s1
                      y2 == IF hasSpouse THEN Step(sib_spouse_y, SIB + IMG, direction)
                            ELSE Step(current_y, IMG + SIB, direction)
                      s3 == call_layout_descendants_left(sib_id, T, s2)
                 IN  InLawSiblingsLoop(sibs, i + 1, T, s3, spouse_x, y2, direction)

\* the loop over the spouse's own spouses (lines 660-704)
PartnersLoop(partners, i, T, st, spouse_x, spouse_y, current_y, direction) ==
    IF i > Len(partners) THEN [st |-> st, y |-> current_y]
    ELSE LET partner_id == partners[i]
         IN  IF partner_id \notin Keys(T) \/ partner_id \in st.processed
             THEN PartnersLoop(partners, i + 1, T, st, spouse_x, spouse_y, current_y, direction)
             ELSE LET partner_y == Step(spouse_y, IMG + CPL, direction)
                      s1 == Place(st, partner_id, spouse_x, partner_y, "inlaw_partner")
                 IN  Bind(InLawSiblingsLoop(get_siblings(partner_id, T), 1, T, s1, spouse_x,
                                            Step(partner_y, SIB + IMG, direction), direction),
                          LAMBDA r :
                      PartnersLoop(partners, i + 1, T, r.st, spouse_x, spouse_y, r.y, direction))

\* _position_spouse_siblings
position_spouse_siblings(spouse_id, spouse_x, spouse_y, T, st, direction) ==
    IF spouse_id \notin Keys(T) THEN st
    ELSE Bind(PartnersLoop(T.node[spouse_id].spouses, 1, T, st, spouse_x, spouse_y,
                           Step(spouse_y, IMG + SIB, direction), direction), LAMBDA r1 :
         InLawSiblingsLoop(get_siblings(spouse_id, T), 1, T, r1.st, spouse_x, r1.y,
                           direction).st)

\* The procedure named in call c, run on the arguments of c
Call(c) ==
    CASE c.proc = "_layout_descendants_left" ->
            layout_descendants_left(c.id, c.T, c.st)
      [] c.proc = "_layout_ancestors_right" ->
            layout_ancestors_right(c.id, c.T, c.st, c.direction)
      [] c.proc = "_position_spouse_siblings" ->
            position_spouse_siblings(c.id, c.x, c.y, c.T, c.st, c.direction)

\* the fallback column with every person in the same slot
RECURSIVE FallbackLoopOneSlot(_, _, _, _, _)
FallbackLoopOneSlot(us, i, st, x, current_y) ==
    IF i > Len(us) THEN st
    ELSE FallbackLoopOneSlot(us, i + 1, Place(st, us[i], x, current_y, "fallback"), x,
                             current_y)

\* the fallback column (lines 237-246): the unprocessed set is iterated in set order
RECURSIVE FallbackLoop(_, _, _, _, _)
FallbackLoop(us, i, st, x, current_y) ==
    IF i > Len(us) THEN st
    ELSE FallbackLoop(us, i + 1, Place(st, us[i], x, current_y, "fallback"), x,
                      current_y + IMG + SIB)

\* a search for the root that finds none
FindRootNone(T, i) == None

\* the first key with generation 0 (lines 183-187), None when there is none
RECURSIVE FindRoot(_, _)
FindRoot(T, i) ==
    IF i > Len(T.keys) THEN None
    ELSE IF T.node[T.keys[i]].generation = 0 THEN T.keys[i] ELSE FindRoot(T, i + 1)

\* PlaceRootAndSpouse with the spouse's position stored under the root's key
PlaceRootAndSpouseWrongKey(T, root_id) ==
    LET s0 == Place(InitSolver, root_id, 0, 0, "root")
        spouses == T.node[root_id].spouses
    IN  IF spouses # <<>> /\ spouses[1] \in Keys(T)
        THEN LET spouse_id == spouses[1]
                 spouse_y == IMG + CPL
                 a == [Place(s0, root_id, 0, spouse_y, "root_spouse")
                          EXCEPT !.processed = @ \cup {spouse_id}]
                 b == call_position_spouse_siblings(spouse_id, 0, spouse_y, T, a,
                                                    Direction(spouse_id))
             IN  layout_ancestors_shared(spouse_id, T, b, Direction(spouse_id))
        ELSE s0

\* The root and its first spouse (lines 195-228)
PlaceRootAndSpouse(T, root_id) ==
    LET s0 == Place(InitSolver, root_id, 0, 0, "root")
        spouses == T.node[root_id].spouses
    IN  IF spouses # <<>> /\ spouses[1] \in Keys(T)
        THEN LET spouse_id == spouses[1]
                 spouse_y == IMG + CPL
                 a == Place(s0, spouse_id, 0, spouse_y, "root_spouse")
                 b == call_position_spouse_siblings(spouse_id, 0, spouse_y, T, a,
                                                    Direction(spouse_id))
             IN  layout_ancestors_shared(spouse_id, T, b, Direction(spouse_id))
        ELSE s0

\* _calculate_positions before the fallback column (lines 177-234)
LayoutMain(T) ==
    LET root_id == FindRoot(T, 1)
    IN  IF T.keys = <<>> \/ root_id = None THEN InitSolver
        ELSE LET s1 == PlaceRootAndSpouse(T, root_id)
                 s2 == call_layout_descendants_left(root_id, T, s1)
             IN  layout_ancestors_shared(root_id, T, s2, Direction(root_id))

\* the rest of _calculate_positions left out
place_unprocessed_none(st, T, o) == st

\* _calculate_positions after the ancestor layout of the root (lines 236-250);
\* o is the order in which the set `unprocessed` iterates
place_unprocessed(st, T, o) ==
    LET root_id == FindRoot(T, 1)
        unprocessed == Keys(T) \ st.processed
    IN  IF st.raised THEN [InitSolver EXCEPT !.raised = TRUE]
        ELSE IF T.keys = <<>> \/ root_id = None THEN st
        ELSE IF unprocessed # {}
             THEN FallbackLoop(SetInOrder(unprocessed, o), 1, st,
                               SetMax({st.pos[p][1] : p \in DOMAIN st.pos}) + TREE_SPACING, 0)
             ELSE st

\* _calculate_positions in a process whose set `unprocessed` iterates in order o
calculate_positions(T, o) == place_unprocessed(LayoutMain(T), T, o)

\* All the sequences that list every element of S once
RECURSIVE Arrangements(_)
Arrangements(S) ==
    IF S = {} THEN {<<>>}
    ELSE UNION {{<<x>> \o o : o \in Arrangements(S \ {x})} : x \in S}

\* The orders in which a Python set of the identifiers S may iterate: any
\* (the order of a set of str depends on the hashes of the process and on the
\* history of the set).
Orders(S) == Arrangements(S)

\* The set `unprocessed` (line 236) when the layout of T has reached state st
Unprocessed(T, st) == IF st.raised THEN {} ELSE Keys(T) \ st.processed

\* The results that _calculate_positions(T) may return, one for each order of
\* `unprocessed`
Layouts(T) ==
    Bind(LayoutMain(T), LAMBDA st :
        {place_unprocessed(st, T, o) : o \in Orders(Unprocessed(T, st))})

\* ------------------------------------------------------------------------
\* Diagram emitter
\* ------------------------------------------------------------------------
\* The keys of positions in insertion order: first assignments, in log order
RECURSIVE PositionOrder(_, _, _)
PositionOrder(log, i, acc) ==
    IF i > Len(log) THEN acc
    ELSE PositionOrder(log, i + 1, IF InSeq(log[i].p, acc) THEN acc ELSE Append(acc, log[i].p))

\* height of a node (line 1163)
node_height(has_image) == IF has_image THEN IMAGE_HEIGHT ELSE NODE_BASE_HEIGHT

\* _create_node: the node record appended to self.nodes.  Its id is its rank in
\* self.nodes (a fresh token); tree numbers the _create_canvas_elements call.
create_node(ns, person_id, x, y, tree) ==
    Append(ns, [id |-> Len(ns) + 1, person |-> person_id, x |-> x, y |-> y,
                width |-> NODE_WIDTH, height |-> node_height(person_id \in images), tree |-> tree])

\* _create_edge that ignores bidirectional
create_edge_one_way(es, from_node, to_node, label, from_side, to_side, bidirectional) ==
    Append(es, [fromNode |-> from_node, toNode |-> to_node, label |-> label,
                fromSide |-> from_side, toSide |-> to_side, fromEnd |-> "none"])

\* _create_edge
create_edge(es, from_node, to_node, label, from_side, to_side, bidirectional) ==
    Append(es, [fromNode |-> from_node, toNode |-> to_node, label |-> label,
                fromSide |-> from_side, toSide |-> to_side,
                fromEnd |-> IF bidirectional THEN "arrow" ELSE "none"])

\* node creation loop (lines 1019-1022): returns [nodes, ids], ids = node_ids
RECURSIVE CreateNodes(_, _, _, _, _, _)
CreateNodes(order, i, pos, offset_x, tree, acc) ==
    IF i > Len(order) THEN acc
    ELSE LET p == order[i]
             ns == create_node(acc.nodes, p, pos[p][1] + offset_x, pos[p][2], tree)
         IN  CreateNodes(order, i + 1, pos, offset_x, tree,
                         [nodes |-> ns, ids |-> (p :> Len(ns)) @@ acc.ids])

\* parent-child edges of one person (lines 1031-1034)
RECURSIVE ChildEdges(_, _, _, _, _)
ChildEdges(children, j, from_id, ids, es) ==
    IF j > Len(children) THEN es
    ELSE ChildEdges(children, j + 1, from_id, ids,
            IF children[j] \in DOMAIN ids
            THEN create_edge(es, from_id, ids[children[j]], "Child", "left", "right", FALSE)
            ELSE es)

\* the spouse-edge test left out: both spouses emit the edge
EmitsSpouseEdgeAlways(person_id, spouse_id) == TRUE

\* the test that lets one of the two spouses emit the edge (line 1041); the
\* order of the naturals stands for the order of the identifier strings
EmitsSpouseEdge(person_id, spouse_id) == person_id < spouse_id

\* spouse edges of one person (lines 1037-1042)
RECURSIVE SpouseEdges(_, _, _, _, _)
SpouseEdges(spouses, j, person_id, ids, es) ==
    IF j > Len(spouses) THEN es
    ELSE SpouseEdges(spouses, j + 1, person_id, ids,
            IF spouses[j] \in DOMAIN ids /\ EmitsSpouseEdge(person_id, spouses[j])
            THEN create_edge(es, ids[person_id], ids[spouses[j]], "Spouse", "bottom", "top", TRUE)
            ELSE es)

\* edge creation loop (lines 1025-1042)
RECURSIVE CreateEdges(_, _, _, _)
CreateEdges(T, i, ids, es) ==
    IF i > Len(T.keys) THEN es
    ELSE LET p == T.keys[i]
         IN  IF p \notin DOMAIN ids THEN CreateEdges(T, i + 1, ids, es)
             ELSE CreateEdges(T, i + 1, ids,
                     SpouseEdges(T.node[p].spouses, 1, p, ids,
                                 ChildEdges(T.node[p].children, 1, ids[p], ids, es)))

\* _create_canvas_elements on canvas c = [nodes, edges]; st holds the positions,
\* offset_x is what the caller added to every x
create_canvas_elements(c, st, offset_x, T, tree) ==
    Bind(CreateNodes(PositionOrder(st.log, 1, <<>>), 1, st.pos, offset_x, tree,
                     [nodes |-> c.nodes, ids |-> EmptyMap]), LAMBDA r :
    [nodes |-> r.nodes, edges |-> CreateEdges(T, 1, r.ids, c.edges)])

\* ------------------------------------------------------------------------
\* Forest assembler
\* ------------------------------------------------------------------------
\* has_parent_in_disconnected (lines 1064-1070)
HasParentIn(p, S) ==
    \E i \in 1 .. Len(get_families_as_child(p)) :
        LET f == get_families_as_child(p)[i]
        IN  (f.father # None /\ f.father \in S) \/ (f.mother # None /\ f.mother \in S)

\* tree_roots (lines 1058-1073) when the set disconnected_ids iterates in an
\* order that lists its members without a parent in it in order o
TreeRoots(disconnected, o) ==
    SelectSeq(SetInOrder(disconnected, o), LAMBDA p : ~HasParentIn(p, disconnected))

\* The members of disconnected_ids that become tree roots
TreeRootSet(disconnected) == {p \in disconnected : ~HasParentIn(p, disconnected)}

\* offset_x before the first component (lines 1079-1083)
InitialOffset(ns) ==
    IF ns # <<>> THEN SetMax({ns[i].x + ns[i].width : i \in 1 .. Len(ns)}) + TREE_SPACING
    ELSE 0

\* offset_x left as it was after a component
NextOffsetUnchanged(st, offset_x) == offset_x

\* offset_x after a component (lines 1109-1111)
NextOffset(st, offset_x) ==
    IF DOMAIN st.pos # {}
    THEN SetMax({st.pos[p][1] + offset_x + NODE_WIDTH : p \in DOMAIN st.pos}) + TREE_SPACING
    ELSE offset_x

\* A record of one build + layout + emit pass
Pass(root_id, T, st, offset_x, tree) ==
    [root |-> root_id, T |-> T, st |-> st, offset |-> offset_x, tree |-> tree]

\* the loop over tree_roots leaving the members of a built tree in disconnected
RECURSIVE ForestLoopKeepsDisconnected(_, _, _)
ForestLoopKeepsDisconnected(roots, i, f) ==
    IF i > Len(roots) THEN {f}
    ELSE IF roots[i] \notin f.disconnected THEN ForestLoopKeepsDisconnected(roots, i + 1, f)
    ELSE Bind(build_tree_structure(roots[i]), LAMBDA T :
         UNION {
             IF st.raised
             THEN {[f EXCEPT !.passes = Append(@, Pass(roots[i], T, st, f.offset_x, f.ntrees + 1))]}
             ELSE ForestLoopKeepsDisconnected(roots, i + 1,
                    [disconnected |-> f.disconnected,
                     offset_x |-> NextOffset(st, f.offset_x),
                     canvas |-> create_canvas_elements(f.canvas, st, f.offset_x, T, f.ntrees + 1),
                     passes |-> Append(f.passes, Pass(roots[i], T, st, f.offset_x, f.ntrees + 1)),
                     ntrees |-> f.ntrees + 1])
             : st \in Layouts(T)})

\* The loop over tree_roots (lines 1086-1111).
\* f = [disconnected, offset_x, canvas, passes, ntrees]; ntrees counts the
\* _create_canvas_elements calls made on this generator so far.  The value is
\* the set of the results the loop may end with, one for each choice of the
\* orders in which the sets `unprocessed` of its _calculate_positions calls iterate.
RECURSIVE ForestLoop(_, _, _)
ForestLoop(roots, i, f) ==
    IF i > Len(roots) THEN {f}
    ELSE IF roots[i] \notin f.disconnected THEN ForestLoop(roots, i + 1, f)
    ELSE Bind(build_tree_structure(roots[i]), LAMBDA T :
         UNION {
             IF st.raised
             THEN {[f EXCEPT !.passes = Append(@, Pass(roots[i], T, st, f.offset_x, f.ntrees + 1))]}
             ELSE ForestLoop(roots, i + 1,
                    [disconnected |-> f.disconnected \ Keys(T),
                     offset_x |-> NextOffset(st, f.offset_x),
                     canvas |-> create_canvas_elements(f.canvas, st, f.offset_x, T, f.ntrees + 1),
                     passes |-> Append(f.passes, Pass(roots[i], T, st, f.offset_x, f.ntrees + 1)),
                     ntrees |-> f.ntrees + 1])
             : st \in Layouts(T)})

\* _add_disconnected_trees: the results it may end with, one for each order
\* of the set disconnected_ids and of the sets `unprocessed`
add_disconnected_trees(main_tree, c, passes, ntrees) ==
    LET disconnected == people \ Keys(main_tree)
    IN  IF disconnected = {} THEN {[canvas |-> c, passes |-> passes]}
        ELSE {[canvas |-> f.canvas, passes |-> f.passes] :
                f \in UNION {ForestLoop(TreeRoots(disconnected, o), 1,
                                        [disconnected |-> disconnected,
                                         offset_x |-> InitialOffset(c.nodes),
                                         canvas |-> c, passes |-> passes, ntrees |-> ntrees])
                             : o \in Orders(TreeRootSet(disconnected))}}

\* ------------------------------------------------------------------------
\* generate_canvas
\* ------------------------------------------------------------------------
\* The canvas after the call and the passes the call made (the main tree
\* first, then the forest components): the set of the results the call may
\* have, one for each choice of the iteration orders of its sets.  c is the
\* canvas before the call, start the number of passes made by earlier calls
\* on this generator.
generate_canvas(root_person_id, c, start) ==
    Bind(build_tree_structure(root_person_id), LAMBDA tree_structure :
    UNION {
        IF positioned_nodes.raised
        THEN {[canvas |-> c,
               passes |-> <<Pass(root_person_id, tree_structure, positioned_nodes, 0, start + 1)>>]}
        ELSE add_disconnected_trees(
                 tree_structure,
                 create_canvas_elements(c, positioned_nodes, 0, tree_structure, start + 1),
                 <<Pass(root_person_id, tree_structure, positioned_nodes, 0, start + 1)>>,
                 start + 1)
        : positioned_nodes \in Layouts(tree_structure)})

\* ------------------------------------------------------------------------
\* The indexes of the model
\* ------------------------------------------------------------------------
\* A FAM record whose HUSB line comes before its WIFE line
Fam(h, w, ch) == [husb |-> h, wife |-> w, chil |-> ch, first |-> "HUSB"]

\* The family records an index is drawn from.  1 is the child of 2 and 3; 4 is
\* the parent of 2, 5 and 6; 7 and 8 are children of 5, 9 is the child of 6;
\* 2 is also married to the niece 7; 7 is also recorded as a parent of 5 (a
\* cycle); 1 and 9 are a couple with the children 7 and 8; 3 and 2 are recorded
\* as a couple a second time.
FamilyPool ==
    << Fam(2, 3, <<1>>),
       Fam(4, None, <<2, 5, 6>>),
       Fam(5, None, <<7, 8>>),
       Fam(None, 6, <<9>>),
       Fam(2, 7, <<>>),
       Fam(None, 7, <<5>>),
       Fam(1, 9, <<7, 8>>),
       Fam(3, 2, <<>>) >>

\* Family records with a cycle of two-parent records: 2 is the child of 4 and
\* 3 while 4 is the child of 2 and 6; beside them the family of 1 (child of 2
\* and 3), the one-parent cycle of 5 and 7, and the couple 1 and 9.
CyclicPool ==
    << Fam(4, 3, <<2>>),
       Fam(2, 6, <<4>>),
       Fam(2, 3, <<1>>),
       Fam(5, None, <<7, 8>>),
       Fam(None, 7, <<5>>),
       Fam(1, 9, <<7, 8>>) >>

\* The SEX values as recorded, and the two variants of them
RecordedSex == [p \in 1 .. MaxPersons + 1 |-> IF p \in {3, 6, 7, 9} THEN "F" ELSE "M"]
SwappedSex == [p \in 1 .. MaxPersons + 1 |-> IF RecordedSex[p] = "M" THEN "F" ELSE "M"]
UnknownSex == [p \in 1 .. MaxPersons + 1 |-> "U"]
SexPool == {RecordedSex, SwappedSex, UnknownSex}

\* The records fs with the WIFE line of every record before its HUSB line
RECURSIVE WifeLinesFirst(_)
WifeLinesFirst(fs) ==
    IF fs = <<>> THEN <<>>
    ELSE <<[Head(fs) EXCEPT !.first = "WIFE"]>> \o WifeLinesFirst(Tail(fs))

\* The numbers, from i on and ascending, of the records of fs that name p on
\* a line with one of the tags
RECURSIVE RecordsNaming(_, _, _, _)
RecordsNaming(p, fs, tags, i) ==
    IF i > Len(fs) THEN <<>>
    ELSE (IF \/ "HUSB" \in tags /\ fs[i].husb = p
             \/ "WIFE" \in tags /\ fs[i].wife = p
          THEN <<i>> ELSE <<>>) \o RecordsNaming(p, fs, tags, i + 1)

Reversed(q) == [i \in 1 .. Len(q) |-> q[Len(q) + 1 - i]]

\* FAMS lines of the INDI records for the FAM records fs.
\* "recorded": one line per record naming the person as HUSB or WIFE, in the
\*   order of the records; "reversed": the same lines in the opposite order;
\* "one_sided": the lines of the husbands only, and the first child of the
\*   first record carries a FAMS line to that record
FamsLines(fs, kind) ==
    [p \in 1 .. MaxPersons + 1 |->
        IF kind = "recorded" THEN RecordsNaming(p, fs, {"HUSB", "WIFE"}, 1)
        ELSE IF kind = "reversed" THEN Reversed(RecordsNaming(p, fs, {"HUSB", "WIFE"}, 1))
        ELSE (IF fs # <<>> /\ fs[1].chil # <<>> /\ fs[1].chil[1] = p THEN <<1>> ELSE <<>>)
             \o RecordsNaming(p, fs, {"HUSB"}, 1)]

\* What an index holds beside the choice of its FAM records: the SEX values,
\* the order of the HUSB and WIFE lines, the FAMS lines, and who has images
World(sx, wife_first, lines, img) ==
    [sex |-> sx, wife_first |-> wife_first, lines |-> lines, images |-> img]
RecordedWorld == World(RecordedSex, FALSE, "recorded", {})
WorldPool ==
    { RecordedWorld,
      World(SwappedSex, FALSE, "recorded", {1, 2, 7}),
      World(UnknownSex, FALSE, "recorded", {}),
      World(UnknownSex, TRUE, "recorded", {}),
      World(RecordedSex, FALSE, "reversed", {}),
      World(RecordedSex, FALSE, "one_sided", {}) }

\* The identifiers in ascending order
Ascending == [i \in 1 .. MaxPersons + 1 |-> i]

\* The pool's records numbered by S, in file order
RECURSIVE PickFamilies(_, _)
PickFamilies(S, i) ==
    IF i > Len(FamilyPool) THEN <<>>
    ELSE (IF i \in S THEN <<FamilyPool[i]>> ELSE <<>>) \o PickFamilies(S, i + 1)

Mentioned(fs) ==
    UNION {Range(FamilyParents(fs[i])) \cup Range(fs[i].chil) : i \in 1 .. Len(fs)}

\* Individuals without any family record that an index may hold in addition
IsolatePool == {{}, {1}, {MaxPersons}}

\* ------------------------------------------------------------------------
\* The state machine
\* ------------------------------------------------------------------------
NoCall == [root |-> None, passes |-> <<>>, first |-> 0, ntrees |-> 0]

\* No _build_tree_structure call is being run step by step
NoBuild ==
    [running |-> FALSE,
     b |-> [queue |-> <<>>, visited |-> {}, T |-> EmptyStructure, expanded |-> <<>>]]

\* CanvasGenerator.__init__ on the individuals of an index that holds the
\* records fs and the individuals in iso beside those the records name
InitIndex(fs, iso, w) ==
    /\ fams = (IF w.wife_first THEN WifeLinesFirst(fs) ELSE fs)
    /\ people = Mentioned(fs) \cup iso
    /\ people # {}
    /\ sex = w.sex
    /\ images = w.images \cap people
    /\ fams_lines = FamsLines(fs, w.lines)
    /\ nodes = <<>>
    /\ edges = <<>>
    /\ calls = 0
    /\ last = NoCall
    /\ bfs = NoBuild

\* Pedigrees of more individuals, as sets of record numbers of FamilyPool:
\* three generations with aunts, uncles and cousins, and a couple with the
\* parents of both
DeepPool == {{1, 2, 3, 4}, {1, 4, 7}}

\* The indexes that are read: S numbers the records, iso are the isolates and
\* w is the variant
Admitted(S, iso, w) ==
    LET n == Cardinality(Mentioned(PickFamilies(S, 1)) \cup iso)
    IN  /\ Cardinality(S) <= MaxFamilies
        /\ \/ n <= MaxIndexed
           \/ w = RecordedWorld /\ iso = {} /\ (n <= MaxIndexed + 2 \/ S \in DeepPool)

Init ==
    /\ \E S \in SUBSET (1 .. Len(FamilyPool)), iso \in IsolatePool, w \in WorldPool :
          /\ Admitted(S, iso, w)
          /\ InitIndex(PickFamilies(S, 1), iso, w)

\* The effect of generate_canvas(root_person_id) on this generator
CallGenerateCanvas(root_person_id) ==
    /\ \E r \in generate_canvas(root_person_id, [nodes |-> nodes, edges |-> edges],
                                  last.ntrees) :
           /\ nodes' = r.canvas.nodes
           /\ edges' = r.canvas.edges
           /\ last' = [root |-> root_person_id, passes |-> r.passes,
                       first |-> Len(nodes) + 1, ntrees |-> last.ntrees + Len(r.passes)]
    /\ calls' = calls + 1
    /\ UNCHANGED <<people, sex, images, fams, fams_lines, bfs>>

\* The first generate_canvas(root_person_id) on this generator (lines 54-87),
\* with any identifier: one of the index or one the index lacks.  The
\* individuals are built over the parser of the gedcom library, as the
\* accessors of individual.py need it.
GenerateCanvas(root_person_id) ==
    /\ calls = 0
    /\ CallGenerateCanvas(root_person_id)

Next == \E root_person_id \in people \cup {AbsentId} : GenerateCanvas(root_person_id)

Spec == Init /\ [][Next]_vars

\* ------------------------------------------------------------------------
\* A generator that is used again: further generate_canvas calls on the object
\* ------------------------------------------------------------------------
\* The indexes of up to MaxIndexed individuals as recorded: the SEX values of
\* the pool, every HUSB line before the WIFE line, one FAMS line per record
\* naming the person, and no images
InitRecorded ==
    /\ \E S \in SUBSET (1 .. Len(FamilyPool)), iso \in IsolatePool :
          /\ Cardinality(S) <= MaxFamilies
          /\ Cardinality(Mentioned(PickFamilies(S, 1)) \cup iso) <= MaxIndexed
          /\ InitIndex(PickFamilies(S, 1), iso, RecordedWorld)

\* A later generate_canvas(root_person_id) on the same generator
GenerateCanvasAgain(root_person_id) ==
    /\ calls >= 1
    /\ calls < MaxCalls
    /\ CallGenerateCanvas(root_person_id)

NextRepeat ==
    \E root_person_id \in people \cup {AbsentId} :
        \/ GenerateCanvas(root_person_id)
        \/ GenerateCanvasAgain(root_person_id)

SpecRepeat == InitRecorded /\ [][NextRepeat]_vars

\* ------------------------------------------------------------------------
\* _build_tree_structure run one loop iteration at a time
\* ------------------------------------------------------------------------
\* The indexes, with the SEX values as recorded, in which every individual is
\* in some family record
InitBuild ==
    /\ \E S \in SUBSET (1 .. Len(FamilyPool)) :
          /\ Cardinality(S) <= MaxFamilies
          /\ InitIndex(PickFamilies(S, 1), {}, RecordedWorld)

\* lines 101-103: the call starts with the root in the queue.  The structure
\* depends on the index and the root only, so one call per root is followed.
StartBuild(root_id) ==
    /\ bfs = NoBuild
    /\ bfs' = [running |-> TRUE, b |-> BuildStart(root_id)]
    /\ UNCHANGED <<people, sex, images, fams, fams_lines, nodes, edges, calls, last>>

\* one iteration of the while loop (lines 105-158)
StepBuild ==
    /\ bfs.running
    /\ bfs.b.queue # <<>>
    /\ bfs' = [bfs EXCEPT !.b = BuildStep(bfs.b)]
    /\ UNCHANGED <<people, sex, images, fams, fams_lines, nodes, edges, calls, last>>

\* line 160: the loop is left and the structure returned
ReturnBuild ==
    /\ bfs.running
    /\ bfs.b.queue = <<>>
    /\ bfs' = [bfs EXCEPT !.running = FALSE]
    /\ UNCHANGED <<people, sex, images, fams, fams_lines, nodes, edges, calls, last>>

NextBuild ==
    \/ \E root_id \in people \cup {AbsentId} : StartBuild(root_id)
    \/ StepBuild
    \/ ReturnBuild

\* The records of pool numbered by S, in file order
RECURSIVE PickFrom(_, _, _)
PickFrom(pool, S, i) ==
    IF i > Len(pool) THEN <<>>
    ELSE (IF i \in S THEN <<pool[i]>> ELSE <<>>) \o PickFrom(pool, S, i + 1)

\* The indexes of up to MaxIndexed + 2 individuals drawn from CyclicPool
InitCyclic ==
    /\ \E S \in SUBSET (1 .. Len(CyclicPool)), sx \in SexPool :
          /\ Cardinality(S) <= MaxFamilies
          /\ Cardinality(Mentioned(PickFrom(CyclicPool, S, 1))) <= MaxIndexed + 2
          /\ InitIndex(PickFrom(CyclicPool, S, 1), {}, World(sx, FALSE, "recorded", {}))

SpecCyclic == InitCyclic /\ [][Next]_vars

\* The interpreter keeps running the loop: an enabled step is taken
SpecBuild == InitBuild /\ [][NextBuild]_vars /\ WF_vars(NextBuild)


\* ------------------------------------------------------------------------
\* Properties
\* ------------------------------------------------------------------------
\* The passes (build + layout + emit) of the last generate_canvas call
PassIdx == 1 .. Len(last.passes)

\* The y extents [y1, y1 + IMAGE_HEIGHT) and [y2, y2 + IMAGE_HEIGHT) intersect
Overlap(y1, y2) == y1 < y2 + IMG /\ y2 < y1 + IMG

\* The nodes and edges the last call appended
NewNodes == {k \in 1 .. Len(nodes) : k >= last.first}
NewEdges == {k \in 1 .. Len(edges) : edges[k].fromNode >= last.first}

\* C1: in every layout of a structure built from a root that is in the index,
\* the root is positioned at exactly (0, 0).
C1_RootAtOrigin ==
    \A i \in PassIdx :
        LET ps == last.passes[i]
        IN  ps.root \in people =>
                ps.root \in DOMAIN ps.st.pos /\ ps.st.pos[ps.root] = <<0, 0>>

\* C1 witness: a root with a spouse, children, parents and a positioned in-law
C1_Witness ==
    \E i \in PassIdx :
        LET ps == last.passes[i]
        IN  /\ ps.root \in people
            /\ ps.root \in Keys(ps.T)
            /\ ps.T.node[ps.root].spouses # <<>>
            /\ ps.T.node[ps.root].children # <<>>
            /\ ps.T.node[ps.root].parents # <<>>
            /\ \E k \in 1 .. Len(ps.st.log) : ps.st.log[k].by = "inlaw_sibling"
            /\ ps.st.pos[ps.root] = <<0, 0>>

\* C2: for every non-empty structure, the positioned persons are exactly the
\* keys of the structure.
C2_LayoutComplete ==
    \A i \in PassIdx :
        LET ps == last.passes[i]
        IN  ps.T.keys # <<>> => DOMAIN ps.st.pos = Keys(ps.T)

\* C2 witness: a layout in which two persons were left to the fallback column
C2_Witness ==
    \E i \in PassIdx :
        LET ps == last.passes[i]
        IN  /\ Cardinality({k \in 1 .. Len(ps.st.log) : ps.st.log[k].by = "fallback"}) >= 2
            /\ DOMAIN ps.st.pos = Keys(ps.T)

\* C3 (as claimed): in one position map no two persons share (x, y), and no two
\* persons at the same x have intersecting vertical extents.
C3_NoOverlap ==
    \A i \in PassIdx :
        LET pos == last.passes[i].st.pos
        IN  \A p, q \in DOMAIN pos :
                (p # q /\ pos[p][1] = pos[q][1]) => ~Overlap(pos[p][2], pos[q][2])

\* The placements of the ancestor procedure and of the descendant layouts it
\* starts: parents, aunts and uncles, their spouses, cousins
AncestorTags ==
    {"father", "mother", "single_parent", "parent_sibling", "parent_sibling_spouse",
     "descendants"}

\* C4 (as claimed): two persons placed at the same x by one top-level
\* _layout_ancestors_right invocation (and its recursive calls) do not overlap.
C4_NoOverlapInRecursion ==
    \A i \in PassIdx :
        LET log == last.passes[i].st.log
        IN  \A a, b \in 1 .. Len(log) :
                (/\ a < b
                 /\ log[a].scope # 0
                 /\ log[a].scope = log[b].scope
                 /\ log[a].by \in AncestorTags
                 /\ log[b].by \in AncestorTags
                 /\ log[a].x = log[b].x) => ~Overlap(log[a].y, log[b].y)

\* C5 (as claimed): every child recorded in the structure is one generation
\* below the parent that records it.
C5_GenerationMonotone ==
    \A i \in PassIdx :
        LET T == last.passes[i].T
        IN  \A P \in Keys(T) :
                \A j \in 1 .. Len(T.node[P].children) :
                    LET C == T.node[P].children[j]
                    IN  C \in Keys(T) => T.node[C].generation = T.node[P].generation + 1

\* C5 (amended): a child whose TreeNode was created from the queue entry that
\* the parent's expansion enqueued is one generation below that parent.
C5_GenerationOfDiscoveredChild ==
    \A i \in PassIdx :
        LET T == last.passes[i].T
        IN  \A P \in Keys(T) :
                \A j \in 1 .. Len(T.node[P].children) :
                    LET C == T.node[P].children[j]
                    IN  (C \in Keys(T) /\ T.node[C].via = <<P, "child">>)
                            => T.node[C].generation = T.node[P].generation + 1

\* C5 witness: a structure with a child discovered through its parent, below a
\* parent that is not the root, next to a child that is not one generation
\* below a parent recording it
C5_Witness ==
    \E i \in PassIdx :
        LET T == last.passes[i].T
        IN  /\ \E P \in Keys(T) : \E j \in 1 .. Len(T.node[P].children) :
                 LET C == T.node[P].children[j]
                 IN  /\ C \in Keys(T)
                     /\ T.node[C].via = <<P, "child">>
                     /\ T.node[P].generation # 0
                     /\ T.node[C].generation = T.node[P].generation + 1
            /\ \E P \in Keys(T) : \E j \in 1 .. Len(T.node[P].children) :
                 LET C == T.node[P].children[j]
                 IN  C \in Keys(T) /\ T.node[C].generation # T.node[P].generation + 1

\* The persons one link away from p: recorded fathers and mothers, partners
\* and children of the families of p
Links(p) ==
    {get_families_as_child(p)[i].father : i \in 1 .. Len(get_families_as_child(p))}
    \cup {get_families_as_child(p)[i].mother : i \in 1 .. Len(get_families_as_child(p))}
    \cup {get_families(p)[i].partner : i \in 1 .. Len(get_families(p))}
    \cup UNION {Range(get_families(p)[i].children) : i \in 1 .. Len(get_families(p))}

RECURSIVE Closure(_)
Closure(S) ==
    LET N == S \cup (UNION {Links(p) : p \in S} \cap people)
    IN  IF N = S THEN S ELSE Closure(N)

\* The indexed persons reachable from root through indexed persons
Reachable(root) == IF root \in people THEN Closure({root}) ELSE {}

\* C6: the keys of a structure are exactly the indexed persons reachable from
\* its root by father/mother, partner and children links.
C6_KeysAreReachable ==
    \A i \in PassIdx :
        Keys(last.passes[i].T) = Reachable(last.passes[i].root)

\* C6 witness: a main tree of at least three persons that leaves out at least
\* two persons of the index
C6_Witness ==
    /\ calls >= 1
    /\ last.root \in people
    /\ Cardinality(Keys(last.passes[1].T)) >= 3
    /\ Cardinality(people \ Keys(last.passes[1].T)) >= 2
    /\ Keys(last.passes[1].T) = Reachable(last.root)

\* C7 (as claimed): the layout of a structure is the same position map under
\* every iteration order of the set of unprocessed persons.
C7_Deterministic ==
    \A i \in PassIdx :
        \A o \in Orders(Keys(last.passes[i].T) \ LayoutMain(last.passes[i].T).processed) :
            calculate_positions(last.passes[i].T, o).pos = last.passes[i].st.pos

\* The Spouse edges between the nodes that pass number tree made for A and B
SpouseEdgesBetween(A, B, tree) ==
    {k \in 1 .. Len(edges) :
        /\ edges[k].label = "Spouse"
        /\ nodes[edges[k].fromNode].tree = tree
        /\ nodes[edges[k].toNode].tree = tree
        /\ {nodes[edges[k].fromNode].person, nodes[edges[k].toNode].person} = {A, B}}

MutualSpouses(T, A, B) ==
    /\ A \in Keys(T) /\ B \in Keys(T) /\ A # B
    /\ InSeq(B, T.node[A].spouses)
    /\ InSeq(A, T.node[B].spouses)

\* C8: for two persons that list each other as spouses and both have a node,
\* one emission holds exactly one Spouse edge between their nodes.
C8_OneSpouseEdge ==
    \A i \in PassIdx :
        LET ps == last.passes[i]
        IN  \A A, B \in DOMAIN ps.st.pos :
                MutualSpouses(ps.T, A, B) =>
                    Cardinality(SpouseEdgesBetween(A, B, ps.tree)) = 1

\* C8 witness: a couple recorded in two families, with its one edge
C8_Witness ==
    \E i \in PassIdx :
        LET ps == last.passes[i]
        IN  \E A, B \in DOMAIN ps.st.pos :
                /\ MutualSpouses(ps.T, A, B)
                /\ Cardinality({k \in 1 .. Len(fams) :
                                   Range(FamilyParents(fams[k])) = {A, B}}) >= 2
                /\ Cardinality(SpouseEdgesBetween(A, B, ps.tree)) = 1

\* The index is a couple and its one child, and the last call's root is one of
\* the couple
CoupleWithOneChild ==
    /\ calls >= 1
    /\ Len(fams) = 1
    /\ fams[1].husb # None /\ fams[1].wife # None
    /\ Len(fams[1].chil) = 1
    /\ people = {fams[1].husb, fams[1].wife, fams[1].chil[1]}
    /\ last.root \in {fams[1].husb, fams[1].wife}

\* ... and both of the couple carry a FAMS line to the record, the child none
ListedCoupleWithOneChild ==
    /\ CoupleWithOneChild
    /\ fams_lines[fams[1].husb] = <<1>>
    /\ fams_lines[fams[1].wife] = <<1>>
    /\ fams_lines[fams[1].chil[1]] = <<>>

ChildEdgesOfCall == {k \in NewEdges : edges[k].label = "Child"}
SpouseEdgesOfCall == {k \in NewEdges : edges[k].label = "Spouse"}

\* C9 (as claimed): root + spouse + one child give 3 nodes, 1 Child edge and
\* 1 Spouse edge with fromEnd = "arrow".
C9_OneChildEdge ==
    CoupleWithOneChild =>
        /\ Cardinality(NewNodes) = 3
        /\ Cardinality(ChildEdgesOfCall) = 1
        /\ Cardinality(SpouseEdgesOfCall) = 1
        /\ \A k \in SpouseEdgesOfCall : edges[k].fromEnd = "arrow"

\* C9 (amended): root + spouse + one child, the couple listing their family
\* on FAMS lines, give 3 nodes, 2 Child edges (one from each parent to the
\* child) and 1 Spouse edge with fromEnd = "arrow".
C9_TwoChildEdges ==
    ListedCoupleWithOneChild =>
        /\ Cardinality(NewNodes) = 3
        /\ Cardinality(ChildEdgesOfCall) = 2
        /\ \A q \in {fams[1].husb, fams[1].wife} :
              \E k \in ChildEdgesOfCall :
                  /\ nodes[edges[k].fromNode].person = q
                  /\ nodes[edges[k].toNode].person = fams[1].chil[1]
        /\ Cardinality(SpouseEdgesOfCall) = 1
        /\ \A k \in SpouseEdgesOfCall : edges[k].fromEnd = "arrow"

\* C9 witness: the diagram of a couple with one child
C9_Witness ==
    /\ ListedCoupleWithOneChild
    /\ Cardinality(NewNodes) = 3
    /\ Cardinality(ChildEdgesOfCall) = 2
    /\ \E k \in SpouseEdgesOfCall : edges[k].fromEnd = "arrow"

\* C10 (as claimed): after generate_canvas(root) with root in the index, every
\* individual of the index has a node made by that call.
C10_NobodyVanishes ==
    (calls >= 1 /\ last.root \in people) =>
        \A p \in people : \E k \in NewNodes : nodes[k].person = p

\* The nodes the last call made in pass number tree, and in the passes before it
NodesOfTree(tree) == {k \in NewNodes : nodes[k].tree = tree}
NodesBeforeTree(tree) == {k \in NewNodes : nodes[k].tree < tree}

\* The rightmost extent (x + width) of the nodes in the non-empty set K
RightmostExtent(K) == SetMax({nodes[k].x + nodes[k].width : k \in K})

\* C11 (as claimed): every node of a forest component has x at least the
\* rightmost extent of all nodes emitted before the component plus TREE_SPACING.
C11_ForestTiling ==
    \A i \in PassIdx :
        LET tree == last.passes[i].tree
        IN  (i >= 2 /\ NodesBeforeTree(tree) # {}) =>
                \A k \in NodesOfTree(tree) :
                    nodes[k].x >= RightmostExtent(NodesBeforeTree(tree)) + TREE_SPACING

\* The node that pass ps made for its root
RootNodes(ps) == {k \in NodesOfTree(ps.tree) : nodes[k].person = ps.root}

\* C12: when the main tree emitted a node, the root of every forest component
\* is emitted at y = 0 and x = offset_x, offset_x is at least the rightmost
\* extent of all nodes emitted before plus TREE_SPACING, and offset_x strictly
\* increases from one component to the next.
C12_ComponentRootAtOffset ==
    \A i \in PassIdx :
        LET ps == last.passes[i]
        IN  (i >= 2 /\ NodesOfTree(last.passes[1].tree) # {}) =>
                /\ RootNodes(ps) # {}
                /\ \A k \in RootNodes(ps) : nodes[k].y = 0 /\ nodes[k].x = ps.offset
                /\ ps.offset >= RightmostExtent(NodesBeforeTree(ps.tree)) + TREE_SPACING
                /\ i >= 3 => ps.offset > last.passes[i - 1].offset

\* C12 witness: a main tree followed by two components, one of them with
\* more than one node
C12_Witness ==
    /\ Len(last.passes) >= 3
    /\ NodesOfTree(last.passes[1].tree) # {}
    /\ \E i \in PassIdx : i >= 2 /\ Cardinality(NodesOfTree(last.passes[i].tree)) >= 2
    /\ \A i \in PassIdx : i >= 3 => last.passes[i].offset > last.passes[i - 1].offset

\* C13: for a root that the index lacks, _build_tree_structure returns the
\* empty structure and _calculate_positions on it the empty position map.
C13_AbsentRootEmptyMaps ==
    \A i \in PassIdx :
        LET ps == last.passes[i]
        IN  ps.root \notin people =>
                /\ ps.T = EmptyStructure
                /\ ps.st.pos = EmptyMap
                /\ calculate_positions(build_tree_structure(ps.root), <<>>).processed = {}

\* C13 witness: a call with an absent root on an index that has families
C13_Witness ==
    /\ calls >= 1
    /\ last.root \notin people
    /\ Len(fams) >= 2
    /\ last.passes[1].T = EmptyStructure
    /\ last.passes[1].st.pos = EmptyMap

\* C14 (as claimed): a generate_canvas call whose root the index lacks emits
\* no node and no edge.
C14_AbsentRootEmitsNothing ==
    (calls >= 1 /\ last.root \notin people) => (NewNodes = {} /\ NewEdges = {})

\* C15 (as claimed): after a second generate_canvas call on the same generator,
\* self.nodes and self.edges hold only what that call created.
C15_SecondCallStartsEmpty ==
    calls >= 2 => (NewNodes = 1 .. Len(nodes) /\ NewEdges = 1 .. Len(edges))

\* Pass ps laid out the family of C16: root R with the single spouse S, who is
\* female, the children C1 then C2, C1 with one spouse and no children, C2 with
\* neither, and nobody else in the structure.
IsDescendantBlock(ps, R, S, C1, C2) ==
    /\ ps.root = R
    /\ {R, S, C1, C2} \subseteq Keys(ps.T)
    /\ Cardinality(Keys(ps.T)) = 5
    /\ Cardinality({R, S, C1, C2}) = 4
    /\ ps.T.node[R].spouses = <<S>>
    /\ get_gender(S) = "F"
    /\ ps.T.node[R].children = <<C1, C2>>
    /\ ps.T.node[R].parents = <<>>
    /\ Len(ps.T.node[C1].spouses) = 1
    /\ ps.T.node[C1].spouses[1] \notin {R, S, C1, C2}
    /\ ps.T.node[C1].children = <<>>
    /\ ps.T.node[C2].spouses = <<>>
    /\ ps.T.node[C2].children = <<>>

\* The root's spouse and two children in pass ps, when it has exactly these
BlockOf(ps) ==
    LET nd == ps.T.node[ps.root]
    IN  [R |-> ps.root, S |-> nd.spouses[1], C1 |-> nd.children[1], C2 |-> nd.children[2]]

HasBlock(ps) ==
    /\ ps.root \in Keys(ps.T)
    /\ Len(ps.T.node[ps.root].spouses) = 1
    /\ Len(ps.T.node[ps.root].children) = 2
    /\ IsDescendantBlock(ps, BlockOf(ps).R, BlockOf(ps).S, BlockOf(ps).C1, BlockOf(ps).C2)

\* C16: in the descendant block of a couple R, S with children C1 (married,
\* childless) and C2 (single), listed in this order, R is at (0, 0), S at
\* (0, IMAGE_HEIGHT + COUPLE_SPACING), both children at x = -GENERATION_SPACING,
\* y(C2) = y(C1) + (2 * IMAGE_HEIGHT + COUPLE_SPACING) + SIBLING_SPACING, and the
\* midpoint of [y(C1), y(C2) + IMAGE_HEIGHT] is the midpoint of y(R) and y(S).
C16_DescendantBlock ==
    \A i \in PassIdx :
        LET ps == last.passes[i]
            pos == ps.st.pos
            f == BlockOf(ps)
        IN  HasBlock(ps) =>
                /\ {f.R, f.S, f.C1, f.C2} \subseteq DOMAIN pos
                /\ pos[f.R] = <<0, 0>>
                /\ pos[f.S] = <<0, IMG + CPL>>
                /\ pos[f.C1][1] = -GENERATION_SPACING
                /\ pos[f.C2][1] = -GENERATION_SPACING
                /\ pos[f.C2][2] = pos[f.C1][2] + (2 * IMG + CPL) + SIB
                /\ pos[f.C1][2] + (pos[f.C2][2] + IMG) = pos[f.R][2] + pos[f.S][2]

\* C16 witness: a pass laid out such a family
C16_Witness ==
    \E i \in PassIdx :
        /\ HasBlock(last.passes[i])
        /\ BlockOf(last.passes[i]).C2 \in DOMAIN last.passes[i].st.pos

\* Pass ps laid out the family of C17: root R without spouse and children, with
\* the two recorded parents F and M, neither of whom has siblings.
IsParentCouple(ps, R, F, M) ==
    /\ ps.root = R
    /\ R \in Keys(ps.T)
    /\ ps.T.node[R].spouses = <<>>
    /\ ps.T.node[R].children = <<>>
    /\ ps.T.node[R].parents = <<F, M>>
    /\ F # M
    /\ get_siblings(F, ps.T) = <<>>
    /\ get_siblings(M, ps.T) = <<>>

HasParentCouple(ps) ==
    /\ ps.root \in Keys(ps.T)
    /\ Len(ps.T.node[ps.root].parents) = 2
    /\ IsParentCouple(ps, ps.root, ps.T.node[ps.root].parents[1],
                      ps.T.node[ps.root].parents[2])

\* C17: for a root R without spouse and children whose recorded parents F and M
\* have no siblings, F is at (GENERATION_SPACING, 0) and M is at
\* (GENERATION_SPACING, -(IMAGE_HEIGHT + COUPLE_SPACING)) when R is male and at
\* (GENERATION_SPACING, IMAGE_HEIGHT + COUPLE_SPACING) otherwise.
C17_ParentCouple ==
    \A i \in PassIdx :
        LET ps == last.passes[i]
            pos == ps.st.pos
            F == ps.T.node[ps.root].parents[1]
            M == ps.T.node[ps.root].parents[2]
        IN  HasParentCouple(ps) =>
                /\ {F, M} \subseteq DOMAIN pos
                /\ pos[F] = <<GENERATION_SPACING, 0>>
                /\ pos[M] = <<GENERATION_SPACING,
                              IF get_gender(ps.root) = "M" THEN -(IMG + CPL) ELSE IMG + CPL>>

\* C17 witness: a pass laid out the parent couple of a male root, the mother above
C17_Witness ==
    \E i \in PassIdx :
        LET ps == last.passes[i]
        IN  /\ HasParentCouple(ps)
            /\ get_gender(ps.root) = "M"
            /\ ps.T.node[ps.root].parents[2] \in DOMAIN ps.st.pos
            /\ ps.st.pos[ps.T.node[ps.root].parents[2]][2] < 0

\* The recorded parents of p that structure T holds
ParentsIn(p, T) == {q \in Range(T.node[p].parents) : q \in Keys(T)}

\* The ids in the children list of at least one such parent, p excluded
ChildrenOfParents(p, T) ==
    {c \in 1 .. MaxPersons + 1 :
        c # p /\ \E q \in ParentsIn(p, T) : InSeq(c, T.node[q].children)}

\* C18: _get_siblings(p, structure) lists exactly the ids found in the children
\* list of at least one recorded parent of p that the structure holds, p
\* excluded, each exactly once; the list is empty when p is absent from the
\* structure or has no recorded parents.
C18_Siblings ==
    \A i \in PassIdx : \A p \in people \cup {AbsentId} :
        LET T == last.passes[i].T
            siblings == get_siblings(p, T)
        IN  /\ Len(siblings) = Cardinality(Range(siblings))
            /\ p \in Keys(T) => Range(siblings) = ChildrenOfParents(p, T)
            /\ p \notin Keys(T) => siblings = <<>>
            /\ (p \in Keys(T) /\ T.node[p].parents = <<>>) => siblings = <<>>

\* C18 witness: a person whose sibling is in the children lists of both the
\* father and the mother, and a person of the index that the structure lacks
C18_Witness ==
    \E i \in PassIdx :
        LET T == last.passes[i].T
        IN  /\ \E p \in Keys(T) : \E c \in Range(get_siblings(p, T)) :
                   /\ Cardinality(ParentsIn(p, T)) = 2
                   /\ \A q \in ParentsIn(p, T) : InSeq(c, T.node[q].children)
            /\ people \ Keys(T) # {}

\* p is in the index and has no family as a child and none as a spouse
IsIsolated(p) ==
    p \in people /\ get_families(p) = <<>> /\ get_families_as_child(p) = <<>>

\* C19: a root of the index without as-child and as-spouse families yields a
\* structure of one TreeNode with empty spouses, children and parents lists,
\* and the position map {root_id: (0, 0)}.
C19_IsolatedRoot ==
    \A i \in PassIdx :
        LET ps == last.passes[i]
        IN  IsIsolated(ps.root) =>
                /\ ps.T.keys = <<ps.root>>
                /\ ps.T.node[ps.root].spouses = <<>>
                /\ ps.T.node[ps.root].children = <<>>
                /\ ps.T.node[ps.root].parents = <<>>
                /\ DOMAIN ps.st.pos = {ps.root}
                /\ ps.st.pos[ps.root] = <<0, 0>>

\* C19 witness: generate_canvas was called with an isolated root on an index
\* that also holds families
C19_Witness ==
    /\ calls >= 1
    /\ IsIsolated(last.root)
    /\ Len(fams) >= 1
    /\ last.passes[1].root = last.root
    /\ DOMAIN last.passes[1].st.pos = {last.root}

\* Each person was expanded at most once: expanded has no repetition, and it
\* lists exactly the visited persons, who are the keys of the structure.
ExpandedOnce ==
    /\ Cardinality(Range(bfs.b.expanded)) = Len(bfs.b.expanded)
    /\ Range(bfs.b.expanded) = bfs.b.visited
    /\ bfs.b.T.keys = bfs.b.expanded

\* A step taken with an already visited person at the head of the queue drops
\* that entry and expands nobody.
DropsVisited ==
    (bfs.running /\ bfs.b.queue # <<>> /\ Head(bfs.b.queue)[1] \in bfs.b.visited) =>
        /\ bfs'.b.queue = Tail(bfs.b.queue)
        /\ bfs'.b.visited = bfs.b.visited
        /\ bfs'.b.T = bfs.b.T
        /\ bfs'.b.expanded = bfs.b.expanded

\* C20: every _build_tree_structure call returns, whatever cycles the index
\* holds; each person is expanded (marked visited and given a TreeNode) at most
\* once, and a queue entry for an already visited person is dropped without
\* expansion.
C20_TraversalTerminates ==
    /\ bfs.running ~> ~bfs.running
    /\ []ExpandedOnce
    /\ [][DropsVisited]_vars

\* C20 witness: a finished traversal of an index in which a person is the
\* child of their own child, both expanded
C20_Witness ==
    /\ ~bfs.running
    /\ bfs.b.queue = <<>>
    /\ \E p, q \in Keys(bfs.b.T) :
           /\ InSeq(q, bfs.b.T.node[p].children)
           /\ InSeq(p, bfs.b.T.node[q].children)
           /\ InSeq(p, bfs.b.T.node[q].parents)

\* C21 (as claimed): every _calculate_positions call returns; none ends in
\* a recursion without end.
C21_LayoutTerminates ==
    \A i \in PassIdx : ~last.passes[i].st.raised

\* C22 (as claimed): every node emitted into the diagram has integer x and y
\* (y is kept in units of 1/Scale pixel; x is computed without division).
C22_IntegerCoordinates ==
    \A k \in NewNodes : nodes[k].y % Scale = 0

\* The log entries of pass ps made by the fallback column, and the others
FallbackEntries(ps) == {k \in 1 .. Len(ps.st.log) : ps.st.log[k].by = "fallback"}
LayoutEntries(ps) == {k \in 1 .. Len(ps.st.log) : ps.st.log[k].by # "fallback"}

\* C23: the persons left to the fallback column are all placed at x = (maximum
\* x of the persons positioned before it) + TREE_SPACING, right of every other
\* person, at the pairwise distinct y values 0, IMAGE_HEIGHT + SIBLING_SPACING,
\* 2 * (IMAGE_HEIGHT + SIBLING_SPACING), ..., one per person.
C23_FallbackColumn ==
    \A i \in PassIdx :
        LET ps == last.passes[i]
            log == ps.st.log
            F == FallbackEntries(ps)
            L == LayoutEntries(ps)
        IN  F # {} =>
                /\ L # {}
                /\ \A k \in F : log[k].x = SetMax({log[j].x : j \in L}) + TREE_SPACING
                /\ \A k \in F : \A j \in L : log[k].x > log[j].x
                /\ {log[k].y : k \in F} = {n * (IMG + SIB) : n \in 0 .. Cardinality(F) - 1}
                /\ \A k, j \in F : log[k].y = log[j].y => k = j
                /\ \A k \in F : ps.st.pos[log[k].p] = <<log[k].x, log[k].y>>

\* C23 witness: a layout whose fallback column holds at least two persons,
\* beside persons at several x
C23_Witness ==
    \E i \in PassIdx :
        LET ps == last.passes[i]
        IN  /\ Cardinality(FallbackEntries(ps)) >= 2
            /\ Cardinality({ps.st.log[j].x : j \in LayoutEntries(ps)}) >= 2

\* In structure T every parent link has the matching child link, every child
\* link the matching parent link, every spouse link is mutual, and nobody has
\* more than two recorded parents.
SymmetricStructure(T) ==
    \A p \in Keys(T) :
        /\ Len(T.node[p].parents) <= 2
        /\ \A q \in Range(T.node[p].parents) :
               q \in Keys(T) /\ InSeq(p, T.node[q].children)
        /\ \A q \in Range(T.node[p].children) :
               q \in Keys(T) /\ InSeq(p, T.node[q].parents)
        /\ \A q \in Range(T.node[p].spouses) :
               q \in Keys(T) /\ InSeq(p, T.node[q].spouses)

\* C24 (as claimed): on a symmetric structure the fallback column stays empty.
C24_NoFallbackWhenSymmetric ==
    \A i \in PassIdx :
        LET ps == last.passes[i]
        IN  SymmetricStructure(ps.T) => FallbackEntries(ps) = {}

\* C25 (as claimed): every person positioned outside the fallback column has
\* x = -generation * GENERATION_SPACING.
C25_ColumnIsGeneration ==
    \A i \in PassIdx :
        LET ps == last.passes[i]
        IN  \A k \in LayoutEntries(ps) :
                ps.st.log[k].x = -ps.T.node[ps.st.log[k].p].generation * GENERATION_SPACING

\* In structure T the first key has generation 0, and every other person p
\* has the generation of the queue entry that created its TreeNode: the person
\* q that enqueued the entry is in T and lists p among its parents with
\* gen(p) = gen(q) - 1, or among its spouses with gen(p) = gen(q), or among its
\* children with gen(p) = gen(q) + 1.
GenerationsExplained(T) ==
    T.keys # <<>> =>
        /\ T.node[T.keys[1]].generation = 0
        /\ \A p \in Keys(T) \ {T.keys[1]} :
               LET q == T.node[p].via[1]
                   relation == T.node[p].via[2]
                   g == T.node[p].generation
               IN  /\ q \in Keys(T)
                   /\ \/ relation = "parent" /\ InSeq(p, T.node[q].parents)
                                             /\ g = T.node[q].generation - 1
                      \/ relation = "spouse" /\ InSeq(p, T.node[q].spouses)
                                             /\ g = T.node[q].generation
                      \/ relation = "child" /\ InSeq(p, T.node[q].children)
                                            /\ g = T.node[q].generation + 1

\* A step that gives the person at the head of the queue a TreeNode records
\* the generation of that queue entry.
GenerationFromEntry ==
    (bfs.running /\ bfs'.running /\ bfs.b.queue # <<>>
        /\ Head(bfs.b.queue)[1] \notin Keys(bfs.b.T)
        /\ Head(bfs.b.queue)[1] \in Keys(bfs'.b.T)) =>
            bfs'.b.T.node[Head(bfs.b.queue)[1]].generation = Head(bfs.b.queue)[2]

\* No step of a traversal changes a generation already recorded.
GenerationKept ==
    (bfs.running /\ bfs'.running) =>
        \A p \in Keys(bfs.b.T) :
            /\ p \in Keys(bfs'.b.T)
            /\ bfs'.b.T.node[p].generation = bfs.b.T.node[p].generation

\* C26: in every structure of _build_tree_structure the root has generation
\* 0 and every other person has the generation carried by the first queue
\* entry dequeued for it, one less than that of a person listing it as parent,
\* equal to that of a person listing it as spouse, or one more than that of a
\* person listing it as child; later queue entries never change it.
C26_GenerationAssignment ==
    /\ []GenerationsExplained(bfs.b.T)
    /\ [][GenerationFromEntry /\ GenerationKept]_vars

\* C26 witness: a finished traversal in which a person is also listed as the
\* child or spouse of a person whose generation does not explain its own (a
\* later queue entry for it was dropped)
C26_Witness ==
    /\ ~bfs.running
    /\ bfs.b.queue = <<>>
    /\ \E p, q \in Keys(bfs.b.T) :
           \/ /\ InSeq(p, bfs.b.T.node[q].children)
              /\ bfs.b.T.node[p].generation # bfs.b.T.node[q].generation + 1
           \/ /\ InSeq(p, bfs.b.T.node[q].spouses)
              /\ bfs.b.T.node[p].generation # bfs.b.T.node[q].generation

\* C27 (as claimed): a single recorded parent is placed at x = R.x +
\* GENERATION_SPACING, at y = claimed_y[(x, direction)] when that entry exists
\* and at y = R.y when it does not.
C27_SingleParentRule ==
    \A i \in PassIdx :
        LET checks == last.passes[i].st.checks
        IN  \A k \in 1 .. Len(checks) :
                /\ checks[k].x = checks[k].child_x + GENERATION_SPACING
                /\ checks[k].y = IF checks[k].had THEN checks[k].claimed
                                 ELSE checks[k].child_y

\* The top-level ancestor layouts of pass ps that were handed the shared map,
\* and those that were handed none
SharedStarts(ps) == {k \in 1 .. Len(ps.st.starts) : ~ps.st.starts[k].fresh}
FreshStarts(ps) == {k \in 1 .. Len(ps.st.starts) : ps.st.starts[k].fresh}

\* The placements of parents made under the top-level ancestor layout number k
ParentsPlacedBy(ps, k) ==
    {j \in 1 .. Len(ps.st.log) :
        /\ ps.st.log[j].scope = ps.st.starts[k].scope
        /\ ps.st.log[j].by \in {"father", "mother", "single_parent"}}

\* min_y_at_x of _calculate_positions is the same before and after its call of
\* _layout_descendants_left
DescendantsLeaveSharedMap(ps) ==
    ps.root \in Keys(ps.T) =>
        Bind(PlaceRootAndSpouse(ps.T, ps.root), LAMBDA s1 :
            call_layout_descendants_left(ps.root, ps.T, s1).miny = s1.miny)

\* C28: in one _calculate_positions call the ancestor layouts of the root and
\* of the root's first spouse run on one min_y_at_x map (number 0), which is
\* empty when the first of them starts; every ancestor layout started from
\* _layout_descendants_left runs on a map of its own that starts empty, and the
\* shared map is the same after the descendant layout as before it.
C28_ClaimedMapScope ==
    \A i \in PassIdx :
        LET ps == last.passes[i]
            starts == ps.st.starts
        IN  /\ \A k \in SharedStarts(ps) :
                   /\ starts[k].map = 0
                   /\ \/ starts[k].person = ps.root
                      \/ starts[k].person = ps.T.node[ps.root].spouses[1]
                   /\ (\A j \in SharedStarts(ps) : k <= j) => starts[k].size = 0
            /\ \A k \in FreshStarts(ps) :
                   /\ starts[k].map # 0
                   /\ starts[k].size = 0
                   /\ \A j \in 1 .. Len(starts) : j # k => starts[j].map # starts[k].map
            /\ \A k \in 1 .. Len(starts) : \A j \in 1 .. Len(ps.st.log) :
                   ps.st.log[j].scope = starts[k].scope => ps.st.log[j].map = starts[k].map
            /\ DescendantsLeaveSharedMap(ps)

\* C28 witness: a layout whose shared map holds claims at the end of the pass
\* while an ancestor layout started for a child's spouse placed a parent in a
\* column that the shared map never claimed
C28_Witness ==
    \E i \in PassIdx :
        LET ps == last.passes[i]
        IN  /\ SharedStarts(ps) # {}
            /\ DOMAIN ps.st.miny # {}
            /\ \E k \in FreshStarts(ps) : \E j \in ParentsPlacedBy(ps, k) :
                   \A key \in DOMAIN ps.st.miny : key[1] # ps.st.log[j].x

\* The person of assignment number j of pass ps
PlacedAt(ps, j) == ps.st.log[j].p

\* p is in the structure of pass ps with a first spouse there too
T_HasSpouse(ps, p) ==
    /\ p \in Keys(ps.T)
    /\ ps.T.node[p].spouses # <<>>
    /\ ps.T.node[p].spouses[1] \in Keys(ps.T)

\* C29: in one _calculate_positions call no person's position is assigned
\* twice, the position a person ends with is the one it was assigned, and
\* the keys of the position map are the processed set: after every
\* assignment they are the persons placed so far.
C29_PlacedOnce ==
    \A i \in PassIdx :
        LET ps == last.passes[i]
            log == ps.st.log
        IN  /\ \A j, k \in 1 .. Len(log) : PlacedAt(ps, j) = PlacedAt(ps, k) => j = k
            /\ \A j \in 1 .. Len(log) :
                   /\ PlacedAt(ps, j) \in DOMAIN ps.st.pos
                   /\ ps.st.pos[PlacedAt(ps, j)] = <<log[j].x, log[j].y>>
            /\ DOMAIN ps.st.pos = ps.st.processed
            /\ ps.st.processed = {PlacedAt(ps, j) : j \in 1 .. Len(log)}

\* C29 witness: a child placed by the descendant layout whose first spouse is
\* in the structure and had its position before the child got its own, so
\* that the descendant layout met a spouse that was placed along another path
C29_Witness ==
    \E i \in PassIdx :
        LET ps == last.passes[i]
            log == ps.st.log
        IN  \E j \in 1 .. Len(log) :
               /\ log[j].by = "descendants"
               /\ T_HasSpouse(ps, PlacedAt(ps, j))
               /\ \E k \in 1 .. j - 1 :
                      PlacedAt(ps, k) = ps.T.node[PlacedAt(ps, j)].spouses[1]

\* The parents, children and partners that the accessors record for p
RecordedParents(p) ==
    {get_families_as_child(p)[k].father : k \in 1 .. Len(get_families_as_child(p))}
        \cup {get_families_as_child(p)[k].mother : k \in 1 .. Len(get_families_as_child(p))}
RecordedChildren(p) ==
    UNION {Range(get_families(p)[k].children) : k \in 1 .. Len(get_families(p))}
RecordedPartners(p) ==
    {get_families(p)[k].partner : k \in 1 .. Len(get_families(p))}

\* Every parent, child and partner link of the index is recorded from both sides
LinksSymmetric ==
    \A p, q \in people :
        /\ q \in RecordedParents(p) <=> p \in RecordedChildren(q)
        /\ q \in RecordedPartners(p) <=> p \in RecordedPartners(q)

\* C30: when every link of the index is recorded from both sides, the
\* structures built by one generate_canvas call (the main tree and the forest
\* components) are pairwise disjoint sets of persons, and the nodes the call
\* emitted are nodes of pairwise different persons.
C30_NoDuplicatePersons ==
    \/ /\ \A i, j \in PassIdx :
              i # j => Keys(last.passes[i].T) \cap Keys(last.passes[j].T) = {}
       /\ \A k, l \in NewNodes : nodes[k].person = nodes[l].person => k = l
    \/ ~LinksSymmetric

\* C30 witness: an index with symmetric links and a call that emitted a main
\* tree and a forest component of several persons, one of which is a second
\* component root (no recorded parent) that the loop then skipped
C30_Witness ==
    /\ Len(last.passes) >= 2
    /\ Keys(last.passes[1].T) # {}
    /\ \E i \in PassIdx :
           /\ i >= 2
           /\ \E q \in Keys(last.passes[i].T) :
                  /\ q # last.passes[i].root
                  /\ RecordedParents(q) \subseteq {None}
           /\ \A q \in Keys(last.passes[i].T) :
                  \E k \in NewNodes : nodes[k].person = q
    /\ LinksSymmetric

=============================================================================
